---- MODULE Spec2Model ----
(***************************************************************************)
(* Model of pyccel's wrapper-protocol generator (pyccel/ast/cwrapper.py)   *)
(* and of the builtin constructors it relies on (pyccel/ast/builtins.py).  *)
(*                                                                         *)
(* The state is the module-level diagnostics collector `errors` plus the   *)
(* record of the last constructor call (`call`) and what it produced       *)
(* (`out`: a node, or the exception that ended the call).                  *)
(* Strings are sequences of one-character strings, so 'O!' is <<"O","!">>. *)
(*                                                                         *)
(* The compilation objects (pyccel/codegen/compiling/basic.py) add the     *)
(* dependency sets, folders and lock objects of every process's objects,   *)
(* the holders of the lock files and each process's position in            *)
(* acquire_lock / release_lock.                                            *)
(***************************************************************************)
EXTENDS Integers, Sequences, FiniteSets, TLC

VARIABLES errors, call, out,
          dependencies, folder, lockgen, held, pc, mutations

\* The state of the compilation objects (pyccel/codegen/compiling/basic.py)
compileVars == <<dependencies, folder, lockgen, held, pc, mutations>>

vars == <<errors, call, out, dependencies, folder, lockgen, held, pc, mutations>>

(***************************************************************************)
(* Bounds                                                                  *)
(***************************************************************************)
MaxParams  == 2   \* longest c_func_args / parse_args list
MaxResults == 1   \* longest result_args list
MaxDiag    == 1   \* a call that reports starts only while the collector holds fewer entries
MaxVal     == 2   \* literal values are 0..MaxVal
MaxElems   == 3   \* longest element list of an aggregate
MaxArgs    == 4   \* longest argument list of PythonRange, PythonZip, PythonMap
NumProcs   == 2   \* processes compiling at the same time
NumObjs    == 2   \* CompileObj instances of each process
MaxDeps    == 2   \* most dependencies an object is constructed with
MaxMutations == 1 \* calls of add_dependencies / reset_folder after construction
ExtraFrames == 1  \* frames the interpreter allows beyond one per object

(***************************************************************************)
(* Datatypes                                                               *)
(***************************************************************************)
DTypes == {"NativeInteger", "NativeReal", "NativeComplex", "NativeBool",
           "NativeString", "NativeGeneric", "NativeVoid",
           "PyccelPyObject", "PyccelPyArrayObject"}

Precisions == {0, 1, 2, 4, 8}

\* cwrapper.py:79
PyArray_Type == [name |-> "PyArray_Type", dtype |-> "NativeGeneric", precision |-> 0]

\* cwrapper.py:109-122
pytype_parse_registry ==
       (<<"NativeInteger", 4>>       :> <<"i">>)
    @@ (<<"NativeInteger", 8>>       :> <<"l">>)
    @@ (<<"NativeInteger", 2>>       :> <<"h">>)
    @@ (<<"NativeInteger", 1>>       :> <<"b">>)
    @@ (<<"NativeReal", 8>>          :> <<"d">>)
    @@ (<<"NativeReal", 4>>          :> <<"f">>)
    @@ (<<"NativeComplex", 4>>       :> <<"O">>)
    @@ (<<"NativeComplex", 8>>       :> <<"O">>)
    @@ (<<"NativeBool", 4>>          :> <<"p">>)
    @@ (<<"NativeString", 0>>        :> <<"s">>)
    @@ (<<"PyccelPyObject", 0>>      :> <<"O">>)
    @@ (<<"PyccelPyArrayObject", 0>> :> <<"O", "!">>)

(***************************************************************************)
(* Outcomes of a call                                                      *)
(***************************************************************************)
Ok(v)      == [status |-> "ok", val |-> v]
Raise(exc) == [status |-> "raise", exc |-> exc]

(***************************************************************************)
(* PyArg_ParseTupleNode                                                    *)
(***************************************************************************)
\* cwrapper.py:188-198.  c_arg is [cls, is_kwonly]; parse_arg is a Variable
\* [name, dtype, precision].
get_pytype(c_arg, parse_arg) ==
    IF c_arg.cls = "FunctionAddress"
    THEN Ok(<<"O">>)
    ELSE IF <<parse_arg.dtype, parse_arg.precision>> \in DOMAIN pytype_parse_registry
         THEN Ok(pytype_parse_registry[<<parse_arg.dtype, parse_arg.precision>>])
         ELSE Raise("NotImplementedError")

\* cwrapper.py:165-167: the loop over the parameters before the first
\* ValuedVariable.  Yields the index it stopped at and the flags so far.
RECURSIVE PositionalLoop(_, _, _, _)
PositionalLoop(c_func_args, parse_args, i, flags) ==
    IF i <= Len(c_func_args) /\ c_func_args[i].cls # "ValuedVariable"
    THEN LET r == get_pytype(c_func_args[i], parse_args[i])
         IN  IF r.status = "raise" THEN r
             ELSE PositionalLoop(c_func_args, parse_args, i + 1, flags \o r.val)
    ELSE Ok([i |-> i, flags |-> flags])

\* cwrapper.py:170-172: the loop over the remaining parameters.
RECURSIVE OptionalLoop(_, _, _, _)
OptionalLoop(c_func_args, parse_args, i, flags) ==
    IF i <= Len(c_func_args)
    THEN LET r == get_pytype(c_func_args[i], parse_args[i])
         IN  IF r.status = "raise" THEN r
             ELSE OptionalLoop(c_func_args, parse_args, i + 1, flags \o r.val)
    ELSE Ok(flags)

\* ParseFlags with the separator test off by one (i < len - 1)
ParseFlags_SepOffByOne(c_func_args, parse_args) ==
    LET first == PositionalLoop(c_func_args, parse_args, 1, <<>>)
    IN  IF first.status = "raise" THEN first
        ELSE LET i    == first.val.i
                 sep  == IF i < Len(c_func_args) THEN <<"|">> ELSE <<>>
             IN  OptionalLoop(c_func_args, parse_args, i, first.val.flags \o sep)

\* cwrapper.py:162-172
ParseFlags(c_func_args, parse_args) ==
    LET first == PositionalLoop(c_func_args, parse_args, 1, <<>>)
    IN  IF first.status = "raise" THEN first
        ELSE LET i    == first.val.i
                 sep  == IF i <= Len(c_func_args) THEN <<"|">> ELSE <<>>
             IN  OptionalLoop(c_func_args, parse_args, i, first.val.flags \o sep)

\* cwrapper.py:174
HasKwonly(c_func_args) ==
    \E i \in 1..Len(c_func_args) : c_func_args[i].is_kwonly

\* FlattenParseArgs with the type descriptor after its target
RECURSIVE FlattenParseArgs_DescriptorLast(_)
FlattenParseArgs_DescriptorLast(parse_args) ==
    IF parse_args = <<>> THEN <<>>
    ELSE LET a == Head(parse_args)
         IN  (IF a.dtype = "PyccelPyArrayObject" THEN <<a, PyArray_Type>> ELSE <<a>>)
             \o FlattenParseArgs_DescriptorLast(Tail(parse_args))

\* cwrapper.py:178-180
RECURSIVE FlattenParseArgs(_)
FlattenParseArgs(parse_args) ==
    IF parse_args = <<>> THEN <<>>
    ELSE LET a == Head(parse_args)
         IN  (IF a.dtype = "PyccelPyArrayObject" THEN <<PyArray_Type, a>> ELSE <<a>>)
             \o FlattenParseArgs(Tail(parse_args))

(***************************************************************************)
(* PyBuildValueNode                                                        *)
(***************************************************************************)
\* BuildFlags falling back to the generic code for a missing key
RECURSIVE BuildFlags_DefaultCode(_, _)
BuildFlags_DefaultCode(result_args, flags) ==
    IF result_args = <<>> THEN Ok(flags)
    ELSE LET i == Head(result_args)
         IN  BuildFlags_DefaultCode(Tail(result_args),
                 flags \o (IF <<i.dtype, i.precision>> \in DOMAIN pytype_parse_registry
                           THEN pytype_parse_registry[<<i.dtype, i.precision>>]
                           ELSE <<"O">>))

\* cwrapper.py:234-235: a missing key is an uncaught KeyError of the dict
RECURSIVE BuildFlags(_, _)
BuildFlags(result_args, flags) ==
    IF result_args = <<>> THEN Ok(flags)
    ELSE LET i == Head(result_args)
         IN  IF <<i.dtype, i.precision>> \in DOMAIN pytype_parse_registry
             THEN BuildFlags(Tail(result_args),
                             flags \o pytype_parse_registry[<<i.dtype, i.precision>>])
             ELSE Raise("KeyError")

(***************************************************************************)
(* Diagnostics collector (errors = Errors(), cwrapper.py:38)               *)
(***************************************************************************)
Diag(severity, symbol) == [severity |-> severity, symbol |-> symbol]

\* Errors.report: the diagnostic is accumulated with its severity and symbol;
\* a fatal one also ends the generation of the current unit.
report(errs, symbol, severity) ==
    [errors |-> Append(errs, Diag(severity, symbol)),
     raised |-> severity = "fatal"]

(***************************************************************************)
(* Python.h objects and PythonType_Check                                   *)
(***************************************************************************)
PyObjectVar(name) == [name |-> name, dtype |-> "PyccelPyObject", precision |-> 0]

\* cwrapper.py:251-255
Py_True  == PyObjectVar("Py_True")
Py_False == PyObjectVar("Py_False")
Py_None  == PyObjectVar("Py_None")

\* check_type_registry with Bool checked as an integer
check_type_registry_BoolAsLong ==
       ("NativeInteger" :> "PyLong_Check")
    @@ ("NativeComplex" :> "PyComplex_Check")
    @@ ("NativeReal"    :> "PyFloat_Check")
    @@ ("NativeBool"    :> "PyLong_Check")

\* cwrapper.py:408-413
check_type_registry ==
       ("NativeInteger" :> "PyLong_Check")
    @@ ("NativeComplex" :> "PyComplex_Check")
    @@ ("NativeReal"    :> "PyFloat_Check")
    @@ ("NativeBool"    :> "PyBool_Check")

\* cwrapper.py:302-306
CheckCall(check_type, argument) ==
    [cls  |-> "FunctionCall",
     func |-> [cls       |-> "FunctionDef",
               name      |-> check_type,
               body      |-> <<>>,
               arguments |-> <<PyObjectVar("o")>>,
               results   |-> <<[name |-> "r", dtype |-> "NativeBool", precision |-> 4]>>],
     args |-> <<argument>>]

(***************************************************************************)
(* Cast functions                                                          *)
(***************************************************************************)
VariableAddress(v) == [cls |-> "VariableAddress", variable |-> v]

PyccelEq(a, b) == [cls |-> "PyccelEq", args |-> <<a, b>>]

\* pybool_to_bool comparing with the wrong singleton
pybool_to_bool_def_PyFalse(cast_function_name) ==
    LET cast_function_argument == PyObjectVar("o")
        cast_function_result   == [name |-> "c", dtype |-> "NativeBool", precision |-> 4]
        cast_function_body ==
            << [cls |-> "Assign",
                lhs |-> cast_function_result,
                rhs |-> PyccelEq(VariableAddress(cast_function_argument),
                                 VariableAddress(Py_False))],
               [cls |-> "Return", expr |-> <<cast_function_result>>] >>
    IN  [cls       |-> "FunctionDef",
         name      |-> cast_function_name,
         arguments |-> <<cast_function_argument>>,
         body      |-> cast_function_body,
         results   |-> <<cast_function_result>>]

\* cwrapper.py:382-392
pybool_to_bool_def(cast_function_name) ==
    LET cast_function_argument == PyObjectVar("o")
        cast_function_result   == [name |-> "c", dtype |-> "NativeBool", precision |-> 4]
        cast_function_body ==
            << [cls |-> "Assign",
                lhs |-> cast_function_result,
                rhs |-> PyccelEq(VariableAddress(cast_function_argument),
                                 VariableAddress(Py_True))],
               [cls |-> "Return", expr |-> <<cast_function_result>>] >>
    IN  [cls       |-> "FunctionDef",
         name      |-> cast_function_name,
         arguments |-> <<cast_function_argument>>,
         body      |-> cast_function_body,
         results   |-> <<cast_function_result>>]

\* The host references a generated cast function can be applied to
HostRefs == {"Py_True", "Py_False", "Py_None", "other"}

\* Value of the address comparison assigned at cwrapper.py:386 when the
\* function's argument 'o' points at the host object ref: the address of a
\* Python.h singleton is the singleton, the address of 'o' is what it points at.
AddressOf(addr, ref) ==
    IF addr.variable.name = "o" THEN ref ELSE addr.variable.name

CastResult(funcdef, ref) ==
    LET cmp == funcdef.body[1].rhs
    IN  AddressOf(cmp.args[1], ref) = AddressOf(cmp.args[2], ref)

(***************************************************************************)
(* Inputs                                                                  *)
(***************************************************************************)
Var(name, t) == [name |-> name, dtype |-> t[1], precision |-> t[2]]

\* The parameters handed to PyArg_ParseTupleNode: the c argument (its class
\* and is_kwonly) paired with the (dtype, precision) of its parse target.
\* The lists built from them pass the type checks of cwrapper.py:149-160.
Param(cls, kw, t) == [c |-> [cls |-> cls, is_kwonly |-> kw], p |-> Var("a", t)]

Params ==
    {Param(cls, kw, t) : cls \in {"Variable", "ValuedVariable"}, kw \in BOOLEAN,
                         t \in {<<"NativeInteger", 4>>, <<"NativeReal", 8>>}}
    \cup {Param("FunctionAddress", kw, <<"NativeGeneric", 0>>) : kw \in BOOLEAN}
    \cup {Param(cls, FALSE, <<"PyccelPyArrayObject", 0>>) :
                         cls \in {"Variable", "FunctionAddress"}}
    \cup {Param("Variable", FALSE, t) :
                         t \in {<<"NativeGeneric", 0>>, <<"NativeBool", 1>>,
                                <<"NativeBool", 4>>}}

\* The results handed to PyBuildValueNode: every dtype at every precision
Results == {Var("r", <<d, p>>) : d \in DTypes, p \in Precisions}

\* The arguments handed to PythonType_Check
CheckArguments == {PyObjectVar("x"), PyObjectVar("y")}

CastNames == {"pybool_to_bool", "cast_1"}

SeqsUpTo(S, n) == UNION {[1..k -> S] : k \in 0..n}

CArgsOf(params)  == [i \in 1..Len(params) |-> params[i].c]
ParseArgsOf(params) == [i \in 1..Len(params) |-> params[i].p]

(***************************************************************************)
(* Actions                                                                 *)
(***************************************************************************)
\* cwrapper.py:145-186
PyArg_ParseTupleNode ==
    /\ Len(errors) < MaxDiag
    /\ \E params \in SeqsUpTo(Params, MaxParams) :
         LET c_func_args == CArgsOf(params)
             parse_args  == ParseArgsOf(params)
             f           == ParseFlags(c_func_args, parse_args)
         IN  /\ call' = [op |-> "PyArg_ParseTupleNode", c_func_args |-> c_func_args,
                         parse_args |-> parse_args, base |-> Len(errors)]
             /\ IF f.status = "raise"
                THEN /\ out' = f
                     /\ UNCHANGED errors
                ELSE /\ errors' = IF HasKwonly(c_func_args)
                                  THEN report(errors, c_func_args, "warning").errors
                                  ELSE errors
                     /\ out' = Ok([flags |-> f.val,
                                   args  |-> FlattenParseArgs(parse_args)])
    /\ UNCHANGED compileVars

\* cwrapper.py:231-236
PyBuildValueNode ==
    /\ \E result_args \in SeqsUpTo(Results, MaxResults) :
         LET f == BuildFlags(result_args, <<>>)
         IN  /\ call' = [op |-> "PyBuildValueNode", result_args |-> result_args,
                         base |-> Len(errors)]
             /\ out' = IF f.status = "raise" THEN f
                       ELSE Ok([flags |-> f.val, args |-> result_args])
    /\ UNCHANGED errors
    /\ UNCHANGED compileVars

\* cwrapper.py:284-306
PythonType_Check ==
    /\ Len(errors) < MaxDiag
    /\ \E dtype \in DTypes, argument \in CheckArguments :
         /\ call' = [op |-> "PythonType_Check", dtype |-> dtype,
                     argument |-> argument, base |-> Len(errors)]
         /\ IF dtype \in DOMAIN check_type_registry
            THEN /\ out' = Ok(CheckCall(check_type_registry[dtype], argument))
                 /\ UNCHANGED errors
            ELSE LET r == report(errors, dtype, "fatal")
                 IN  /\ errors' = r.errors
                     /\ out' = Raise(IF r.raised THEN "PyccelError"
                                     ELSE "UnboundLocalError")
    /\ UNCHANGED compileVars

\* cwrapper.py:382-392
pybool_to_bool ==
    /\ \E cast_function_name \in CastNames :
         /\ call' = [op |-> "pybool_to_bool", name |-> cast_function_name,
                     base |-> Len(errors)]
         /\ out' = Ok(pybool_to_bool_def(cast_function_name))
    /\ UNCHANGED errors
    /\ UNCHANGED compileVars

(***************************************************************************)
(* Builtins: literals, PythonReal, PythonImag, PythonComplex               *)
(***************************************************************************)
\* datatypes.default_precision and datatypes.str_dtype
default_precision ==
    ("integer" :> 8) @@ ("int" :> 8) @@ ("real" :> 8) @@ ("float" :> 8)
    @@ ("complex" :> 8) @@ ("bool" :> 4)

str_dtype(dtype) ==
    CASE dtype = "NativeInteger" -> "integer"
      [] dtype = "NativeReal"    -> "real"
      [] dtype = "NativeComplex" -> "complex"
      [] dtype = "NativeBool"    -> "bool"

\* Nodes carry an id: two nodes are the same node iff they are equal records.
\* A literal built without a precision has the default precision of its dtype.
LiteralInteger(v, id) ==
    [cls |-> "LiteralInteger", dtype |-> "NativeInteger",
     precision |-> default_precision["integer"], python_value |-> v, id |-> id]

LiteralFloat(v, id) ==
    [cls |-> "LiteralFloat", dtype |-> "NativeReal",
     precision |-> default_precision["real"], python_value |-> v, id |-> id]

\* A complex literal carries separate real and imag sub-literals
LiteralComplex(re, im, id) ==
    [cls |-> "LiteralComplex", dtype |-> "NativeComplex",
     precision |-> default_precision["complex"],
     real |-> LiteralFloat(re, "real"), imag |-> LiteralFloat(im, "imag"), id |-> id]

LiteralImaginaryUnit ==
    [cls |-> "LiteralImaginaryUnit", dtype |-> "NativeComplex",
     precision |-> default_precision["complex"], id |-> "new"]

TypedVariable(dtype, id) ==
    [cls |-> "Variable", dtype |-> dtype,
     precision |-> default_precision[str_dtype(dtype)], id |-> id]

\* A Variable of the given dtype and precision
PrecVariable(dtype, precision, id) ==
    [cls |-> "Variable", dtype |-> dtype, precision |-> precision, id |-> id]

None == [cls |-> "None"]

LiteralClasses == {"LiteralInteger", "LiteralFloat", "LiteralComplex"}

\* isinstance(arg, Literal)
IsLiteral(arg) == arg.cls \in LiteralClasses

\* isinstance(arg, Literal) and arg.python_value == 0  (builtins.py:182,193,198)
IsLiteralZero(arg) ==
    /\ IsLiteral(arg)
    /\ IF arg.cls = "LiteralComplex"
       THEN arg.real.python_value = 0 /\ arg.imag.python_value = 0
       ELSE arg.python_value = 0

\* get_default_literal_value(dtype): the zero-valued literal of the dtype
get_default_literal_value(dtype) ==
    IF dtype = "NativeInteger" THEN LiteralInteger(0, "new")
    ELSE IF dtype = "NativeReal" THEN LiteralFloat(0, "new")
    ELSE IF dtype = "NativeComplex" THEN LiteralComplex(0, 0, "new")
    ELSE [cls |-> "LiteralFalse", dtype |-> dtype,
          precision |-> default_precision["bool"], python_value |-> 0, id |-> "new"]

\* builtins.py:47-68
PythonComplexProperty(cls, arg) ==
    [cls |-> cls, dtype |-> "NativeReal", rank |-> 0, shape |-> <<>>,
     precision |-> arg.precision, internal_var |-> arg, id |-> "new"]

\* PythonReal wrapping every argument in an accessor node
PythonReal_AlwaysWraps(arg) ==
    PythonComplexProperty("PythonReal", arg)

\* builtins.py:84-88
PythonReal(arg) ==
    IF arg.dtype # "NativeComplex" THEN arg
    ELSE PythonComplexProperty("PythonReal", arg)

\* builtins.py:101-105
PythonImag(arg) ==
    IF arg.dtype # "NativeComplex" THEN get_default_literal_value(arg.dtype)
    ELSE PythonComplexProperty("PythonImag", arg)

PyccelAdd(a, b)   == [cls |-> "PyccelAdd", args |-> <<a, b>>, id |-> "new"]
PyccelMul(a, b)   == [cls |-> "PyccelMul", args |-> <<a, b>>, id |-> "new"]
PyccelMinus(a, b) == [cls |-> "PyccelMinus", args |-> <<a, b>>, id |-> "new"]
PyccelUnarySub(a) == [cls |-> "PyccelUnarySub", args |-> <<a>>, id |-> "new"]

\* FoldComplex adding the imaginary part of arg1 to the real part
FoldComplex_SignSlip(arg0, arg1) ==
    LET real0 == IF arg0.cls = "LiteralComplex" THEN 0 + arg0.real.python_value
                 ELSE 0 + arg0.python_value
        imag0 == IF arg0.cls = "LiteralComplex" THEN 0 + arg0.imag.python_value
                 ELSE 0
        real_part == IF arg1.cls = "LiteralComplex" THEN real0 + arg1.imag.python_value
                     ELSE real0
        imag_part == IF arg1.cls = "LiteralComplex" THEN imag0 + arg1.real.python_value
                     ELSE imag0 + arg1.python_value
    IN  LiteralComplex(real_part, imag_part, "new")

\* builtins.py:151-169: both arguments are literals
FoldComplex(arg0, arg1) ==
    LET real0 == IF arg0.cls = "LiteralComplex" THEN 0 + arg0.real.python_value
                 ELSE 0 + arg0.python_value
        imag0 == IF arg0.cls = "LiteralComplex" THEN 0 + arg0.imag.python_value
                 ELSE 0
        real_part == IF arg1.cls = "LiteralComplex" THEN real0 - arg1.imag.python_value
                     ELSE real0
        imag_part == IF arg1.cls = "LiteralComplex" THEN imag0 + arg1.real.python_value
                     ELSE imag0 + arg1.python_value
    IN  LiteralComplex(real_part, imag_part, "new")

\* PythonComplex_init keeping the accessor instead of the operand
PythonComplex_init_WrongOperand(arg0, arg1) ==
    LET is_cast == arg0.dtype = "NativeComplex" /\ IsLiteralZero(arg1)
        parts ==
            IF is_cast
            THEN [real |-> PythonReal(arg0), imag |-> PythonImag(arg0),
                  internal_var |-> PythonReal(arg0)]
            ELSE IF arg0.dtype = "NativeComplex" /\ ~IsLiteralZero(arg1)
            THEN [real |-> PythonReal(arg0),
                  imag |-> PyccelAdd(PythonImag(arg0), arg1),
                  internal_var |-> None]
            ELSE IF arg1.dtype = "NativeComplex"
            THEN IF IsLiteralZero(arg0)
                 THEN [real |-> PyccelUnarySub(PythonImag(arg1)),
                       imag |-> PythonReal(arg1),
                       internal_var |-> None]
                 ELSE [real |-> PyccelMinus(arg0, PythonImag(arg1)),
                       imag |-> PythonReal(arg1),
                       internal_var |-> None]
            ELSE [real |-> arg0, imag |-> arg1, internal_var |-> None]
    IN  [cls |-> "PythonComplex", dtype |-> "NativeComplex", rank |-> 0, shape |-> <<>>,
         is_cast |-> is_cast, real |-> parts.real, imag |-> parts.imag,
         internal_var |-> parts.internal_var, args |-> <<arg0, arg1>>, id |-> "new"]

\* builtins.py:180-209
PythonComplex_init(arg0, arg1) ==
    LET is_cast == arg0.dtype = "NativeComplex" /\ IsLiteralZero(arg1)
        parts ==
            IF is_cast
            THEN [real |-> PythonReal(arg0), imag |-> PythonImag(arg0),
                  internal_var |-> arg0]
            ELSE IF arg0.dtype = "NativeComplex" /\ ~IsLiteralZero(arg1)
            THEN [real |-> PythonReal(arg0),
                  imag |-> PyccelAdd(PythonImag(arg0), arg1),
                  internal_var |-> None]
            ELSE IF arg1.dtype = "NativeComplex"
            THEN IF IsLiteralZero(arg0)
                 THEN [real |-> PyccelUnarySub(PythonImag(arg1)),
                       imag |-> PythonReal(arg1),
                       internal_var |-> None]
                 ELSE [real |-> PyccelMinus(arg0, PythonImag(arg1)),
                       imag |-> PythonReal(arg1),
                       internal_var |-> None]
            ELSE [real |-> arg0, imag |-> arg1, internal_var |-> None]
    IN  [cls |-> "PythonComplex", dtype |-> "NativeComplex", rank |-> 0, shape |-> <<>>,
         is_cast |-> is_cast, real |-> parts.real, imag |-> parts.imag,
         internal_var |-> parts.internal_var, args |-> <<arg0, arg1>>, id |-> "new"]

\* PythonComplex_new without the rewrite of two Complex-typed arguments
PythonComplex_new_NoRewrite(arg0, arg1) ==
    IF IsLiteral(arg0) /\ IsLiteral(arg1)
    THEN FoldComplex(arg0, arg1)
    ELSE PythonComplex_init(arg0, arg1)

\* builtins.py:149-178 followed by __init__ when an instance is returned
PythonComplex_new(arg0, arg1) ==
    IF IsLiteral(arg0) /\ IsLiteral(arg1)
    THEN FoldComplex(arg0, arg1)
    ELSE IF arg0.dtype = "NativeComplex" /\ arg1.dtype = "NativeComplex"
    THEN PyccelAdd(arg0, PyccelMul(arg1, LiteralImaginaryUnit))
    ELSE PythonComplex_init(arg0, arg1)

\* The default of the second argument, builtins.py:149
DefaultArg1 == LiteralFloat(0, "default")

Values == 0..MaxVal

\* The nodes handed to the builtins as an argument with the given id
ArgNodes(id) ==
    {LiteralInteger(v, id) : v \in Values}
    \cup {LiteralFloat(v, id) : v \in Values}
    \cup {LiteralComplex(re, im, id) : re \in Values, im \in Values}
    \cup {TypedVariable(d, id) : d \in {"NativeInteger", "NativeReal", "NativeComplex"}}

\* builtins.py:140-230
PythonComplex ==
    /\ \E arg0 \in ArgNodes("arg0"), arg1 \in ArgNodes("arg1") \cup {DefaultArg1} :
         /\ call' = [op |-> "PythonComplex", arg0 |-> arg0, arg1 |-> arg1,
                     base |-> Len(errors)]
         /\ out' = Ok(PythonComplex_new(arg0, arg1))
    /\ UNCHANGED errors
    /\ UNCHANGED compileVars

\* The arguments handed to PythonReal and PythonImag
PropertyArgs ==
    ArgNodes("arg0")
    \cup {PrecVariable(d, p, "arg0") :
             d \in {"NativeInteger", "NativeReal", "NativeComplex", "NativeBool"},
             p \in {4, 8}}

\* builtins.py:74-88
CallPythonReal ==
    /\ \E arg \in PropertyArgs :
         /\ call' = [op |-> "PythonReal", arg |-> arg, base |-> Len(errors)]
         /\ out' = Ok(PythonReal(arg))
    /\ UNCHANGED errors
    /\ UNCHANGED compileVars

\* builtins.py:91-105
CallPythonImag ==
    /\ \E arg \in PropertyArgs :
         /\ call' = [op |-> "PythonImag", arg |-> arg, base |-> Len(errors)]
         /\ out' = Ok(PythonImag(arg))
    /\ UNCHANGED errors
    /\ UNCHANGED compileVars

(***************************************************************************)
(* PythonBool                                                              *)
(***************************************************************************)
Nil == [cls |-> "Nil"]

PyccelAnd(a, b)   == [cls |-> "PyccelAnd", args |-> <<a, b>>, id |-> "new"]
PyccelIsNot(a, b) == [cls |-> "PyccelIsNot", args |-> <<a, b>>, id |-> "new"]

\* builtins.py:109-127: the PythonBool instance after __init__
PythonBool_init(arg) ==
    [cls |-> "PythonBool", dtype |-> "NativeBool", rank |-> 0, shape |-> <<>>,
     precision |-> default_precision["bool"], arg |-> arg, id |-> "new"]

\* getattr(arg, 'is_optional', None), builtins.py:118
IsOptional(arg) == "is_optional" \in DOMAIN arg /\ arg.is_optional

\* PythonBool testing the argument before the guard
PythonBool_new_GuardLast(arg) ==
    IF IsOptional(arg)
    THEN PyccelAnd(PythonBool_init(arg), PyccelIsNot(arg, Nil))
    ELSE PythonBool_init(arg)

\* builtins.py:117-123
PythonBool_new(arg) ==
    IF IsOptional(arg)
    THEN PyccelAnd(PyccelIsNot(arg, Nil), PythonBool_init(arg))
    ELSE PythonBool_init(arg)

\* Short-circuit evaluation of a conjunction in operand order, for an
\* argument that is unset or set: the operands that get evaluated.
TruthOf(expr, unset) ==
    IF expr.cls = "PyccelIsNot" THEN ~unset ELSE TRUE

Evaluated(expr, unset) ==
    IF expr.cls = "PyccelAnd"
    THEN <<expr.args[1]>> \o (IF TruthOf(expr.args[1], unset) THEN <<expr.args[2]>>
                              ELSE <<>>)
    ELSE <<expr>>

\* The arguments handed to PythonBool: variables with an is_optional
\* attribute, and literals, which have none
BoolArgs ==
    {[cls |-> "Variable", dtype |-> d, precision |-> default_precision[str_dtype(d)],
      is_optional |-> o, id |-> "arg0"] :
         d \in {"NativeInteger", "NativeReal", "NativeBool"}, o \in BOOLEAN}
    \cup {LiteralInteger(v, "arg0") : v \in Values}

\* builtins.py:109-127
CallPythonBool ==
    /\ \E arg \in BoolArgs :
         /\ call' = [op |-> "PythonBool", arg |-> arg, base |-> Len(errors)]
         /\ out' = Ok(PythonBool_new(arg))
    /\ UNCHANGED errors
    /\ UNCHANGED compileVars

(***************************************************************************)
(* PythonTuple and PythonList                                              *)
(***************************************************************************)
\* A shape is a known sequence of sizes or None
Shape(dims) == [known |-> TRUE, dims |-> dims]
NoShape     == [known |-> FALSE]

Elem(dtype, precision, rank, shape, order) ==
    [cls |-> "Variable", dtype |-> dtype, precision |-> precision,
     rank |-> rank, shape |-> shape, order |-> order]

Dim(n) == LiteralInteger(n, "new")

MaxOf(S) == CHOOSE m \in S : \A x \in S : x <= m

Elems(args) == {args[i] : i \in 1..Len(args)}

\* builtins.py:323-326
IsHomogeneousArgs(args) ==
    \A i \in 2..Len(args) :
        /\ args[i].dtype # "NativeGeneric"
        /\ args[1].dtype = args[i].dtype
        /\ args[1].rank  = args[i].rank
        /\ args[1].order = args[i].order

\* builtins.py:327
InconsistentShape(args) ==
    ~(\A i \in 2..Len(args) : args[1].shape = args[i].shape)

OfDtype(args, dtype) == {a \in Elems(args) : a.dtype = dtype}

\* NumericKind taking the precision of element 0
NumericKind_FirstPrecision(args) ==
    IF \E d \in {"NativeComplex", "NativeReal", "NativeInteger", "NativeBool"} :
           OfDtype(args, d) # {}
    THEN Ok([dtype |-> args[1].dtype, precision |-> args[1].precision])
    ELSE Raise("TypeError")

\* builtins.py:340-353
NumericKind(args) ==
    LET pick(d) == Ok([dtype |-> d,
                       precision |-> MaxOf({a.precision : a \in OfDtype(args, d)})])
    IN  IF OfDtype(args, "NativeComplex") # {} THEN pick("NativeComplex")
        ELSE IF OfDtype(args, "NativeReal") # {} THEN pick("NativeReal")
        ELSE IF OfDtype(args, "NativeInteger") # {} THEN pick("NativeInteger")
        ELSE IF OfDtype(args, "NativeBool") # {} THEN pick("NativeBool")
        ELSE Raise("TypeError")

\* StringTyping giving the aggregate a dimension of its own
StringTyping_Ranked(args) ==
    [dtype |-> "NativeString", rank |-> 1, shape |-> Shape(<<Dim(Len(args))>>)]

\* builtins.py:335-338
StringTyping(args) ==
    [dtype |-> "NativeString", rank |-> 0, shape |-> Shape(<<>>)]

\* builtins.py:329-360: the fields set for a homogeneous aggregate
HomogeneousTyping(args) ==
    IF OfDtype(args, "NativeString") # {}
    THEN Ok(StringTyping(args))
    ELSE LET kind == NumericKind(args)
         IN  IF kind.status = "raise" THEN kind
             ELSE IF \A a \in Elems(args) : a.shape.known
             THEN LET shape == <<Dim(Len(args))>> \o args[1].shape.dims
                  IN  Ok([dtype |-> kind.val.dtype, precision |-> kind.val.precision,
                          rank |-> Len(shape), shape |-> Shape(shape)])
             ELSE Ok([dtype |-> kind.val.dtype, precision |-> kind.val.precision,
                      rank |-> MaxOf({a.rank : a \in Elems(args)}) + 1])

\* builtins.py:362-366: adding a tuple to a None shape is a TypeError
HeterogeneousTyping(args) ==
    IF ~args[1].shape.known THEN Raise("TypeError")
    ELSE Ok([dtype |-> "NativeGeneric", precision |-> 0,
             rank |-> MaxOf({a.rank : a \in Elems(args)}) + 1,
             shape |-> Shape(<<Dim(Len(args))>> \o args[1].shape.dims)])

\* builtins.py:314-315, 411-412: the class attribute _is_homogeneous
ClassHomogeneous(cls) == cls = "PythonList"

\* builtins.py:318-366
PythonTuple_init(cls, stage, args) ==
    IF stage = "syntactic" \/ Len(args) = 0
    THEN Ok([cls |-> cls, args |-> args, typed |-> FALSE,
             is_homogeneous |-> ClassHomogeneous(cls)])
    ELSE LET is_homogeneous == IsHomogeneousArgs(args)
             typing == IF is_homogeneous THEN HomogeneousTyping(args)
                       ELSE HeterogeneousTyping(args)
         IN  IF typing.status = "raise" THEN typing
             ELSE Ok([cls |-> cls, args |-> args, typed |-> TRUE,
                      is_homogeneous |-> is_homogeneous,
                      inconsistent_shape |-> InconsistentShape(args),
                      typing |-> typing.val])

\* The elements handed to the aggregate constructors
ElemNodes ==
    {Elem(t[1], t[2], 0, Shape(<<>>), "C") :
        t \in {<<"NativeInteger", 4>>, <<"NativeInteger", 8>>, <<"NativeReal", 8>>,
               <<"NativeBool", 4>>, <<"NativeString", 0>>, <<"NativeGeneric", 0>>,
               <<"PyccelPyObject", 0>>}}
    \cup {Elem("NativeInteger", 8, 1, sh, "C") :
             sh \in {Shape(<<Dim(2)>>), Shape(<<Dim(3)>>), NoShape}}
    \cup {Elem("NativeInteger", 8, 1, Shape(<<Dim(2)>>), "F"),
          Elem("NativeInteger", 8, 2, Shape(<<Dim(2), Dim(2)>>), "C")}

\* The constructor calls: class, PyccelAstNode.stage and the elements
TupleCalls ==
    {[op |-> "PythonTuple", cls |-> cls, stage |-> stage, args |-> args, base |-> 0] :
        cls \in {"PythonTuple", "PythonList"}, stage \in {"semantic", "syntactic"},
        args \in SeqsUpTo(ElemNodes, MaxElems)}

\* builtins.py:311-366, 408-412
CallPythonTuple ==
    /\ call.op = "PythonTuple"
    /\ out.status = "none"
    /\ out' = PythonTuple_init(call.cls, call.stage, call.args)
    /\ UNCHANGED <<errors, call>>
    /\ UNCHANGED compileVars

(***************************************************************************)
(* PythonRange, PythonZip, PythonMap                                       *)
(***************************************************************************)
\* builtins.py:467-486 with the two-argument fields exchanged
PythonRange_init_StopFirst(args) ==
    LET n == Len(args) IN
    IF n = 1
    THEN Ok([cls |-> "PythonRange", start |-> LiteralInteger(0, "new"),
             stop |-> args[1], step |-> LiteralInteger(1, "new")])
    ELSE IF n = 2
    THEN Ok([cls |-> "PythonRange", start |-> args[2],
             stop |-> args[1], step |-> LiteralInteger(1, "new")])
    ELSE IF n = 3
    THEN Ok([cls |-> "PythonRange", start |-> args[1],
             stop |-> args[2], step |-> args[3]])
    ELSE Raise("ValueError")

\* builtins.py:467-486
PythonRange_init(args) ==
    LET n == Len(args) IN
    IF n = 1
    THEN Ok([cls |-> "PythonRange", start |-> LiteralInteger(0, "new"),
             stop |-> args[1], step |-> LiteralInteger(1, "new")])
    ELSE IF n = 2
    THEN Ok([cls |-> "PythonRange", start |-> args[1],
             stop |-> args[2], step |-> LiteralInteger(1, "new")])
    ELSE IF n = 3
    THEN Ok([cls |-> "PythonRange", start |-> args[1],
             stop |-> args[2], step |-> args[3]])
    ELSE Raise("ValueError")

\* builtins.py:509-515 with the length test off by one
PythonZip_init_AtLeastOne(args) ==
    IF Len(args) < 1
    THEN Raise("ValueError")
    ELSE Ok([cls |-> "PythonZip", args |-> args])

\* builtins.py:509-515; *args is always a tuple, so the isinstance test
\* never fails
PythonZip_init(args) ==
    IF Len(args) < 2
    THEN Raise("ValueError")
    ELSE Ok([cls |-> "PythonZip", args |-> args])

\* builtins.py:517-519
element(zip) == zip.args[1]

\* builtins.py:419-423
PythonMap_init(args) ==
    IF Len(args) < 2
    THEN Raise("TypeError")
    ELSE Ok([cls |-> "PythonMap", args |-> args])

\* The nodes handed to PythonRange, PythonZip and PythonMap
IterNodes ==
    {TypedVariable("NativeInteger", "a"), TypedVariable("NativeInteger", "b"),
     LiteralInteger(0, "c")}

IterCalls ==
    {[op |-> o, args |-> args, base |-> 0] :
        o \in {"PythonRange", "PythonZip", "PythonMap"},
        args \in SeqsUpTo(IterNodes, MaxArgs)}

\* builtins.py:451-498
CallPythonRange ==
    /\ call.op = "PythonRange"
    /\ out.status = "none"
    /\ out' = PythonRange_init(call.args)
    /\ UNCHANGED <<errors, call>>
    /\ UNCHANGED compileVars

\* builtins.py:502-519
CallPythonZip ==
    /\ call.op = "PythonZip"
    /\ out.status = "none"
    /\ out' = PythonZip_init(call.args)
    /\ UNCHANGED <<errors, call>>
    /\ UNCHANGED compileVars

\* builtins.py:415-423
CallPythonMap ==
    /\ call.op = "PythonMap"
    /\ out.status = "none"
    /\ out' = PythonMap_init(call.args)
    /\ UNCHANGED <<errors, call>>
    /\ UNCHANGED compileVars

(***************************************************************************)
(* PythonFloat and PythonInt                                               *)
(***************************************************************************)
\* builtins.py:263-273
PythonFloat_new(arg) ==
    IF arg.cls = "LiteralFloat"
    THEN LiteralFloat(arg.python_value, "new")
    ELSE IF arg.cls = "LiteralInteger"
    THEN LiteralFloat(arg.python_value, "new")
    ELSE [cls |-> "PythonFloat", dtype |-> "NativeReal", rank |-> 0,
          shape |-> <<>>, precision |-> default_precision["real"],
          arg |-> arg, id |-> "new"]

\* builtins.py:296-304
PythonInt_new(arg) ==
    IF arg.cls = "LiteralInteger"
    THEN LiteralInteger(arg.python_value, "new")
    ELSE [cls |-> "PythonInt", dtype |-> "NativeInteger", rank |-> 0,
          shape |-> <<>>, precision |-> default_precision["integer"],
          arg |-> arg, id |-> "new"]

\* The arguments handed to PythonInt and PythonFloat: Integer and Float
\* literals of either precision, and variables
CastArgs ==
    {[LiteralInteger(v, "arg0") EXCEPT !.precision = p] : v \in Values, p \in {4, 8}}
    \cup {[LiteralFloat(v, "arg0") EXCEPT !.precision = p] : v \in Values, p \in {4, 8}}
    \cup {PrecVariable(d, p, "arg0") :
             d \in {"NativeInteger", "NativeReal", "NativeBool"}, p \in {4, 8}}

CastCalls ==
    {[op |-> o, arg |-> arg, base |-> 0] :
        o \in {"PythonInt", "PythonFloat"}, arg \in CastArgs}

\* builtins.py:255-273
CallPythonFloat ==
    /\ call.op = "PythonFloat"
    /\ out.status = "none"
    /\ out' = Ok(PythonFloat_new(call.arg))
    /\ UNCHANGED <<errors, call>>
    /\ UNCHANGED compileVars

\* builtins.py:287-304
CallPythonInt ==
    /\ call.op = "PythonInt"
    /\ out.status = "none"
    /\ out' = Ok(PythonInt_new(call.arg))
    /\ UNCHANGED <<errors, call>>
    /\ UNCHANGED compileVars

(***************************************************************************)
(* PythonSum, PythonMax, PythonMin                                         *)
(***************************************************************************)
\* Classes deriving from PyccelAstNode, which carry dtype and precision
TypedClasses == {"Variable", "PythonTuple", "PythonList"}

\* isinstance(arg, PyccelAstNode)
IsPyccelAstNode(arg) == arg.cls \in TypedClasses

\* The node a reduction builds, builtins.py:549-553, 569-573, 583-587
Reduction(cls, dtype, precision, arg) ==
    [cls |-> cls, dtype |-> dtype, rank |-> 0, shape |-> <<>>,
     precision |-> precision, args |-> <<arg>>, id |-> "new"]

\* builtins.py:546-553
PythonSum_init(arg) ==
    IF ~IsPyccelAstNode(arg)
    THEN Raise("TypeError")
    ELSE Ok(Reduction("PythonSum", arg.dtype,
                      default_precision[str_dtype(arg.dtype)], arg))

\* builtins.py:566-573; a python list or tuple passes the isinstance test and
\* has no dtype attribute
PythonMax_init(x) ==
    IF x.cls \notin {"list", "tuple", "PythonTuple", "PythonList"}
    THEN Raise("TypeError")
    ELSE IF ~IsPyccelAstNode(x)
    THEN Raise("AttributeError")
    ELSE Ok(Reduction("PythonMax", x.dtype, x.precision, x))

\* builtins.py:582-587
PythonMin_init(x) ==
    IF ~IsPyccelAstNode(x)
    THEN Raise("AttributeError")
    ELSE Ok(Reduction("PythonMin", x.dtype, x.precision, x))

\* The operands handed to the reductions: typed nodes of rank 1 and objects
\* that are not AST nodes
ReductionArgs ==
    {[cls |-> c, dtype |-> d, precision |-> p, rank |-> 1, id |-> "arg0"] :
        c \in TypedClasses,
        d \in {"NativeInteger", "NativeReal", "NativeComplex", "NativeBool"},
        p \in {4, 8}}
    \cup {[cls |-> c, id |-> "arg0"] : c \in {"list", "tuple", "str"}}

ReductionCalls ==
    {[op |-> o, arg |-> arg, base |-> 0] :
        o \in {"PythonSum", "PythonMax", "PythonMin"}, arg \in ReductionArgs}

\* builtins.py:540-557
CallPythonSum ==
    /\ call.op = "PythonSum"
    /\ out.status = "none"
    /\ out' = PythonSum_init(call.arg)
    /\ UNCHANGED <<errors, call>>
    /\ UNCHANGED compileVars

\* builtins.py:560-573
CallPythonMax ==
    /\ call.op = "PythonMax"
    /\ out.status = "none"
    /\ out' = PythonMax_init(call.arg)
    /\ UNCHANGED <<errors, call>>
    /\ UNCHANGED compileVars

\* builtins.py:577-587
CallPythonMin ==
    /\ call.op = "PythonMin"
    /\ out.status = "none"
    /\ out' = PythonMin_init(call.arg)
    /\ UNCHANGED <<errors, call>>
    /\ UNCHANGED compileVars

(***************************************************************************)
(* CompileObj: targets, dependencies and file locks                        *)
(***************************************************************************)
Procs == 1..NumProcs

\* Every process has its own instance of each CompileObj; instance o of
\* every process is built from the same source file. Objects are compared
\* and hashed by target (basic.py:233-237); the instances of one process
\* have different targets, so a dependency set is a set of instances.
Objs == 1..NumObjs

Folders == {"src", "lib"}

\* basic.py:63-73: the target is the module name joined to the folder
target(fld, o) == <<fld, o>>

Targets == Folders \X Objs

\* No process holds the lock file
NoHolder == [proc |-> 0, obj |-> 0, gen |-> 0, count |-> 0]

\* basic.py:75, 104: self._lock = FileLock(self.target+'.lock'), the lock
\* object instance o of process p has now
FileLock(p, o) ==
    [proc |-> p, obj |-> o, gen |-> lockgen[p][o], path |-> target(folder[p][o], o)]

\* filelock: the lock object holds its lock file
IsLocked(h, lk) ==
    /\ h[lk.path].proc = lk.proc
    /\ h[lk.path].obj  = lk.obj
    /\ h[lk.path].gen  = lk.gen

\* filelock: acquire() returns at once on a lock object that holds its file
\* (counting the acquisition) and waits while another lock object holds it
CanAcquire(h, lk) == h[lk.path].proc = 0 \/ IsLocked(h, lk)

FileLock_acquire(h, lk) ==
    IF IsLocked(h, lk)
    THEN [h EXCEPT ![lk.path].count = @ + 1]
    ELSE [h EXCEPT ![lk.path] =
             [proc |-> lk.proc, obj |-> lk.obj, gen |-> lk.gen, count |-> 1]]

\* filelock: release() of a lock object that holds nothing does nothing; the
\* file is unlocked when the last acquisition is released
FileLock_release(h, lk) ==
    IF ~IsLocked(h, lk) THEN h
    ELSE IF h[lk.path].count = 1
    THEN [h EXCEPT ![lk.path] = NoHolder]
    ELSE [h EXCEPT ![lk.path].count = @ - 1]

\* basic.py:217-219: for d in self.dependencies: d.release_simple_lock()
RECURSIVE release_simple_locks(_, _)
release_simple_locks(h, locks) ==
    IF locks = {} THEN h
    ELSE LET lk == CHOOSE x \in locks : TRUE
         IN  release_simple_locks(FileLock_release(h, lk), locks \ {lk})

\* The orders in which a set can be iterated
Orders(S) ==
    {s \in [1..Cardinality(S) -> S] :
        \A i, j \in 1..Cardinality(S) : i # j => s[i] # s[j]}

Idle == [at |-> "idle", obj |-> 0, todo |-> <<>>, locks |-> {}]

\* basic.py:193: a process calls acquire_lock() on one of its objects
acquire_lock ==
    /\ \E p \in Procs, o \in Objs :
         /\ pc[p].at = "idle"
         /\ pc' = [pc EXCEPT ![p] = [at |-> "own", obj |-> o, todo |-> <<>>,
                                     locks |-> {}]]
    /\ UNCHANGED <<errors, call, out, dependencies, folder, lockgen, held, mutations>>

\* basic.py:197-198: self._lock.acquire() returns and the iteration of the
\* dependency set starts, in one of its orders; locks is what the call is
\* to take
AcquireOwnLock ==
    /\ \E p \in Procs :
         /\ pc[p].at = "own"
         /\ LET o  == pc[p].obj
                lk == FileLock(p, o)
            IN  /\ CanAcquire(held, lk)
                /\ held' = FileLock_acquire(held, lk)
                /\ \E order \in Orders(dependencies[p][o]) :
                     pc' = [pc EXCEPT ![p] =
                              [at    |-> IF order = <<>> THEN "held" ELSE "deps",
                               obj   |-> o,
                               todo  |-> order,
                               locks |-> {lk.path} \cup
                                         {FileLock(p, d).path : d \in dependencies[p][o]}]]
    /\ UNCHANGED <<errors, call, out, dependencies, folder, lockgen, mutations>>

\* basic.py:199, 201-205: d.acquire_simple_lock() for the next dependency
acquire_simple_lock ==
    /\ \E p \in Procs :
         /\ pc[p].at = "deps"
         /\ LET lk == FileLock(p, Head(pc[p].todo))
            IN  /\ CanAcquire(held, lk)
                /\ held' = FileLock_acquire(held, lk)
         /\ pc' = [pc EXCEPT ![p].todo = Tail(@),
                             ![p].at = IF Len(pc[p].todo) = 1 THEN "held" ELSE "deps"]
    /\ UNCHANGED <<errors, call, out, dependencies, folder, lockgen, mutations>>

\* basic.py:207-219: the lock object and the dependency set the object has
\* now are released
release_lock ==
    /\ \E p \in Procs :
         /\ pc[p].at = "held"
         /\ LET o == pc[p].obj
            IN  held' = release_simple_locks(
                            FileLock_release(held, FileLock(p, o)),
                            {FileLock(p, d) : d \in dependencies[p][o]})
         /\ pc' = [pc EXCEPT ![p] = Idle]
    /\ UNCHANGED <<errors, call, out, dependencies, folder, lockgen, mutations>>

\* basic.py:175-191, called by a process that is not inside acquire_lock()
add_dependencies ==
    /\ mutations < MaxMutations
    /\ \E p \in Procs, o \in Objs, d \in Objs :
         /\ pc[p].at \in {"idle", "held"}
         /\ dependencies' = [dependencies EXCEPT ![p][o] = @ \cup {d}]
    /\ mutations' = mutations + 1
    /\ UNCHANGED <<errors, call, out, folder, lockgen, held, pc>>

\* filelock: the finalizer of a lock object releases its lock file, however
\* often it was acquired
FileLock_del(h, lk) ==
    IF IsLocked(h, lk) THEN [h EXCEPT ![lk.path] = NoHolder] ELSE h

\* basic.py:87-104: the target moves to the folder and a new lock object
\* replaces the one the object had; the replaced lock object is finalized
\* when the interpreter collects it, at once or not before the process ends
reset_folder ==
    /\ mutations < MaxMutations
    /\ \E p \in Procs, o \in Objs, fld \in Folders, collected \in BOOLEAN :
         /\ pc[p].at \in {"idle", "held"}
         /\ folder' = [folder EXCEPT ![p][o] = fld]
         /\ lockgen' = [lockgen EXCEPT ![p][o] = @ + 1]
         /\ held' = IF collected THEN FileLock_del(held, FileLock(p, o)) ELSE held
    /\ mutations' = mutations + 1
    /\ UNCHANGED <<errors, call, out, dependencies, pc>>

\* The frames the interpreter allows a recursion
StackDepth == NumObjs + ExtraFrames

\* basic.py:160-167: the recursion ends with RecursionError when the stack
\* is used up
RECURSIVE extra_modules(_, _, _, _)
extra_modules(deps, flds, o, frames) ==
    IF frames = 0 THEN Raise("RecursionError")
    ELSE LET subs == {extra_modules(deps, flds, d, frames - 1) : d \in deps[o]}
         IN  IF \E r \in subs : r.status = "raise"
             THEN Raise("RecursionError")
             ELSE Ok({target(flds[d], d) : d \in deps[o]}
                     \cup UNION {r.val : r \in subs})

\* basic.py:160-167: a process reads extra_modules of one of its objects
ReadExtraModules ==
    /\ \E p \in Procs, o \in Objs :
         /\ call' = [op |-> "extra_modules", proc |-> p, obj |-> o,
                     dependencies |-> dependencies[p], folder |-> folder[p],
                     base |-> Len(errors)]
         /\ out' = extra_modules(dependencies[p], folder[p], o, StackDepth)
    /\ UNCHANGED <<errors, dependencies, folder, lockgen, held, pc, mutations>>

\* basic.py:49-85: the dependency sets objects are constructed with
Graphs == [Objs -> {S \in SUBSET Objs : Cardinality(S) <= MaxDeps}]

\* No lock is held, no process is locking, every object is in its own folder
Unlocked ==
    /\ folder = [p \in Procs |-> [o \in Objs |-> "src"]]
    /\ lockgen = [p \in Procs |-> [o \in Objs |-> 0]]
    /\ held = [t \in Targets |-> NoHolder]
    /\ pc = [p \in Procs |-> Idle]
    /\ mutations = 0

\* The objects have no dependencies
NoCompile ==
    /\ dependencies = [p \in Procs |-> [o \in Objs |-> {}]]
    /\ Unlocked

Init ==
    /\ errors = <<>>
    /\ NoCompile
    /\ call = [op |-> "none"]
    /\ out = [status |-> "none"]

Next ==
    \/ PyArg_ParseTupleNode
    \/ PyBuildValueNode
    \/ PythonType_Check
    \/ pybool_to_bool

Spec == Init /\ [][Next]_vars

NextBuiltins ==
    \/ PythonComplex
    \/ CallPythonReal
    \/ CallPythonImag
    \/ CallPythonBool

SpecBuiltins == Init /\ [][NextBuiltins]_vars

\* An aggregate constructor called with any of the element lists
InitAggregates ==
    /\ errors = <<>>
    /\ NoCompile
    /\ call \in TupleCalls
    /\ out = [status |-> "none"]

NextAggregates ==
    \/ CallPythonTuple

SpecAggregates == InitAggregates /\ [][NextAggregates]_vars

\* A constructor of an iterable, a cast or a reduction called with any of
\* its argument lists
InitConstructors ==
    /\ errors = <<>>
    /\ NoCompile
    /\ call \in IterCalls \cup CastCalls \cup ReductionCalls
    /\ out = [status |-> "none"]

NextConstructors ==
    \/ CallPythonRange
    \/ CallPythonZip
    \/ CallPythonMap
    \/ CallPythonFloat
    \/ CallPythonInt
    \/ CallPythonSum
    \/ CallPythonMax
    \/ CallPythonMin

SpecConstructors == InitConstructors /\ [][NextConstructors]_vars

\* Every process starts from the same objects, constructed with any
\* dependency sets
InitCompile ==
    /\ errors = <<>>
    /\ call = [op |-> "none"]
    /\ out = [status |-> "none"]
    /\ \E g \in Graphs : dependencies = [p \in Procs |-> g]
    /\ Unlocked

NextLocks ==
    \/ acquire_lock
    \/ AcquireOwnLock
    \/ acquire_simple_lock
    \/ release_lock
    \/ add_dependencies
    \/ reset_folder

SpecLocks == InitCompile /\ [][NextLocks]_vars

NextModules ==
    \/ add_dependencies
    \/ reset_folder
    \/ ReadExtraModules

SpecModules == InitCompile /\ [][NextModules]_vars

(***************************************************************************)
(* Properties                                                              *)
(***************************************************************************)
IsParse   == call.op = "PyArg_ParseTupleNode"
IsBuild   == call.op = "PyBuildValueNode"
IsCheck   == call.op = "PythonType_Check"
IsCast    == call.op = "pybool_to_bool"
IsComplex == call.op = "PythonComplex"

\* The diagnostics the last call added to the collector
Reported == SubSeq(errors, call.base + 1, Len(errors))

\* The format-code table as the specification words it (section 6)
TableCode(dtype, precision) ==
    CASE dtype = "NativeInteger" /\ precision = 4 -> <<"i">>
      [] dtype = "NativeInteger" /\ precision = 8 -> <<"l">>
      [] dtype = "NativeInteger" /\ precision = 2 -> <<"h">>
      [] dtype = "NativeInteger" /\ precision = 1 -> <<"b">>
      [] dtype = "NativeReal" /\ precision = 8 -> <<"d">>
      [] dtype = "NativeReal" /\ precision = 4 -> <<"f">>
      [] dtype = "NativeComplex" /\ precision \in {4, 8} -> <<"O">>
      [] dtype = "NativeBool" /\ precision = 4 -> <<"p">>
      [] dtype = "NativeString" /\ precision = 0 -> <<"s">>
      [] dtype = "PyccelPyObject" /\ precision = 0 -> <<"O">>
      [] dtype = "PyccelPyArrayObject" /\ precision = 0 -> <<"O", "!">>
      [] OTHER -> <<>>

InTable(v) == TableCode(v.dtype, v.precision) # <<>>

NParams == Len(call.c_func_args)

Defaulted(i) == call.c_func_args[i].cls = "ValuedVariable"

IsFunctionRef(i) == call.c_func_args[i].cls = "FunctionAddress"

ArrayTarget(i) == call.parse_args[i].dtype = "PyccelPyArrayObject"

\* Index of the first defaulted parameter, NParams + 1 when there is none
FirstDefault ==
    IF \E i \in 1..NParams : Defaulted(i)
    THEN CHOOSE i \in 1..NParams :
            Defaulted(i) /\ \A j \in 1..(i - 1) : ~Defaulted(j)
    ELSE NParams + 1

ParamCode(i) ==
    IF IsFunctionRef(i) THEN <<"O">>
    ELSE TableCode(call.parse_args[i].dtype, call.parse_args[i].precision)

\* The codes of parameters lo..hi in declared order
RECURSIVE ParamCodes(_, _)
ParamCodes(lo, hi) ==
    IF lo > hi THEN <<>> ELSE ParamCode(lo) \o ParamCodes(lo + 1, hi)

CountOf(ch, str) == Cardinality({k \in 1..Len(str) : str[k] = ch})

\* C1: the parse format is the codes before the first defaulted parameter,
\* then one '|' iff some parameter is defaulted, then the codes of all the
\* remaining parameters; a function reference always has code 'O'.
C1_FlagsLayout ==
    (IsParse /\ out.status = "ok") =>
        /\ out.val.flags = ParamCodes(1, FirstDefault - 1)
                           \o (IF FirstDefault <= NParams THEN <<"|">> ELSE <<>>)
                           \o ParamCodes(FirstDefault, NParams)
        /\ CountOf("|", out.val.flags) = (IF \E i \in 1..NParams : Defaulted(i) THEN 1 ELSE 0)

\* (x: Integer 4, y: Real 8 = default) gives "i|d"
C1_Witness ==
    /\ IsParse
    /\ NParams = 2
    /\ call.c_func_args[1].cls = "Variable" /\ call.c_func_args[2].cls = "ValuedVariable"
    /\ call.parse_args[1].dtype = "NativeInteger" /\ call.parse_args[1].precision = 4
    /\ call.parse_args[2].dtype = "NativeReal" /\ call.parse_args[2].precision = 8
    /\ out.status = "ok"
    /\ out.val.flags = <<"i", "|", "d">>

\* C2: in parse-format and build-value synthesis alike, a (dtype, precision)
\* absent from the table aborts construction with the "type not implemented"
\* error (NotImplementedError).
C2_SameFatalError ==
    /\ (IsParse /\ \E i \in 1..NParams : ~IsFunctionRef(i) /\ ~InTable(call.parse_args[i]))
           => out = Raise("NotImplementedError")
    /\ (IsBuild /\ \E i \in 1..Len(call.result_args) : ~InTable(call.result_args[i]))
           => out = Raise("NotImplementedError")

KwonlyNoDefault(i) == call.c_func_args[i].is_kwonly /\ ~Defaulted(i)

AllCodesKnown == \A i \in 1..NParams : IsFunctionRef(i) \/ InTable(call.parse_args[i])

\* C3: a signature with a keyword-only parameter lacking a default yields
\* the node and exactly one warning whose symbol is that parameter.
C3_OneWarningNamingParameter ==
    (IsParse /\ AllCodesKnown /\ \E i \in 1..NParams : KwonlyNoDefault(i)) =>
        /\ out.status = "ok"
        /\ Len(Reported) = 1
        /\ Reported[1].severity = "warning"
        /\ \E i \in 1..NParams : KwonlyNoDefault(i) /\ Reported[1].symbol = call.c_func_args[i]

\* C4: no warning is reported unless some parameter is keyword-only and
\* lacks a default.
C4_WarningOnlyWithoutDefault ==
    (IsParse /\ out.status = "ok" /\ ~\E i \in 1..NParams : KwonlyNoDefault(i)) =>
        Reported = <<>>

NArrayTargets(k) == Cardinality({i \in 1..k : ArrayTarget(i)})

\* Where parse target i lands in the node's argument list
ArgPos(i) == i + NArrayTargets(i)

\* The argument list: declared order kept, PyArray_Type right before each
\* array-object target, one entry for every other target.
ArgsLayout ==
    /\ Len(out.val.args) = NParams + NArrayTargets(NParams)
    /\ \A i \in 1..NParams :
         /\ out.val.args[ArgPos(i)] = call.parse_args[i]
         /\ ArrayTarget(i) => out.val.args[ArgPos(i) - 1] = PyArray_Type
    /\ CountOf(PyArray_Type, out.val.args) = NArrayTargets(NParams)

\* Every '!' of the format follows an 'O'
BangFollowsO ==
    \A k \in 1..Len(out.val.flags) :
        out.val.flags[k] = "!" => (k > 1 /\ out.val.flags[k - 1] = "O")

RECURSIVE ConcatCodes(_)
ConcatCodes(codes) ==
    IF codes = <<>> THEN <<>> ELSE Head(codes) \o ConcatCodes(Tail(codes))

\* The table with Bool resolving to 'p' at every precision
TableCodeAnyBool(dtype, precision) ==
    IF dtype = "NativeBool" THEN <<"p">> ELSE TableCode(dtype, precision)

\* C6 as first stated: the table is the mapping of the specification and a
\* Bool value resolves to 'p' whatever its precision.
C6_BoolAnyPrecision ==
    IsBuild =>
        IF \A i \in 1..Len(call.result_args) :
               TableCodeAnyBool(call.result_args[i].dtype,
                                call.result_args[i].precision) # <<>>
        THEN /\ out.status = "ok"
             /\ out.val.flags = ConcatCodes([i \in 1..Len(call.result_args) |->
                                    TableCodeAnyBool(call.result_args[i].dtype,
                                                     call.result_args[i].precision)])
        ELSE out.status = "raise"

\* C6: the table is exactly the mapping of the specification, with Bool
\* resolving to 'p' at precision 4 only; every other pair has no entry.
C6_TableExact ==
    IsBuild =>
        IF \A i \in 1..Len(call.result_args) : InTable(call.result_args[i])
        THEN /\ out.status = "ok"
             /\ out.val.flags = ConcatCodes([i \in 1..Len(call.result_args) |->
                                    TableCode(call.result_args[i].dtype,
                                              call.result_args[i].precision)])
        ELSE out.status = "raise"

C6_Witness ==
    /\ IsBuild
    /\ Len(call.result_args) = 1
    /\ call.result_args[1].dtype = "NativeInteger" /\ call.result_args[1].precision = 8
    /\ out.status = "ok"
    /\ out.val.flags = <<"l">>

\* The predicate names as the specification fixes them
PredicateName(dtype) ==
    CASE dtype = "NativeInteger" -> "PyLong_Check"
      [] dtype = "NativeComplex" -> "PyComplex_Check"
      [] dtype = "NativeReal"    -> "PyFloat_Check"
      [] dtype = "NativeBool"    -> "PyBool_Check"
      [] OTHER -> "none"

\* C7: PythonType_Check returns the call of the dtype's fixed predicate on
\* exactly the given argument for Integer, Complex, Real and Bool; for any
\* other dtype it reports a fatal diagnostic with the dtype as symbol and
\* returns no call.
C7_TypeCheck ==
    IsCheck =>
        IF call.dtype \in {"NativeInteger", "NativeComplex", "NativeReal", "NativeBool"}
        THEN /\ out.status = "ok"
             /\ out.val.cls = "FunctionCall"
             /\ out.val.func.name = PredicateName(call.dtype)
             /\ out.val.args = <<call.argument>>
             /\ Reported = <<>>
        ELSE /\ out.status = "raise"
             /\ Reported = <<Diag("fatal", call.dtype)>>

C7_Witness ==
    /\ IsCheck
    /\ call.dtype = "NativeReal"
    /\ out.status = "ok"
    /\ out.val.func.name = "PyFloat_Check"
    /\ out.val.args = <<call.argument>>

\* The variables whose addresses the cast function compares
ComparedNames(funcdef) ==
    {funcdef.body[1].rhs.args[k].variable.name : k \in 1..2}

IdentityComparison(funcdef) ==
    /\ funcdef.body[1].cls = "Assign"
    /\ funcdef.body[1].lhs = funcdef.results[1]
    /\ funcdef.body[1].rhs.cls = "PyccelEq"
    /\ \A k \in 1..2 : funcdef.body[1].rhs.args[k].cls = "VariableAddress"

\* C8 as first stated: pybool_to_bool compares the identity of its argument
\* against both Py_True and Py_False; true exactly for Py_True, false
\* exactly for Py_False.
C8_BothSingletons ==
    IsCast =>
        /\ IdentityComparison(out.val)
        /\ ComparedNames(out.val) = {"o", "Py_True", "Py_False"}
        /\ \A ref \in HostRefs :
             /\ CastResult(out.val, ref) <=> ref = "Py_True"
             /\ ~CastResult(out.val, ref) <=> ref = "Py_False"

\* C8: pybool_to_bool compares the identity of its argument against the
\* Py_True singleton only, with no generic truth test: the result is true
\* exactly for Py_True and false for every other reference, Py_False included.
C8_IdentityWithPyTrue ==
    IsCast =>
        /\ IdentityComparison(out.val)
        /\ ComparedNames(out.val) = {"o", "Py_True"}
        /\ \A ref \in HostRefs : CastResult(out.val, ref) <=> ref = "Py_True"

C8_Witness ==
    /\ IsCast
    /\ out.status = "ok"
    /\ out.val.name = "pybool_to_bool"
    /\ CastResult(out.val, "Py_True")
    /\ ~CastResult(out.val, "Py_False")
    /\ ~CastResult(out.val, "Py_None")

Re(lit) == IF lit.cls = "LiteralComplex" THEN lit.real.python_value ELSE lit.python_value
Im(lit) == IF lit.cls = "LiteralComplex" THEN lit.imag.python_value ELSE 0

\* C9: PythonComplex of two literals is one Complex literal with
\* real = re(arg0) - im(arg1) and imag = im(arg0) + re(arg1).
C9_LiteralFolding ==
    (IsComplex /\ IsLiteral(call.arg0) /\ IsLiteral(call.arg1)) =>
        /\ out.status = "ok"
        /\ out.val.cls = "LiteralComplex"
        /\ out.val.real.python_value = Re(call.arg0) - Im(call.arg1)
        /\ out.val.imag.python_value = Im(call.arg0) + Re(call.arg1)

\* complex(1, 2) gives real = 1, imag = 2
C9_Witness ==
    /\ IsComplex
    /\ call.arg0 = LiteralInteger(1, "arg0")
    /\ call.arg1 = LiteralInteger(2, "arg1")
    /\ out.val.cls = "LiteralComplex"
    /\ out.val.real.python_value = 1
    /\ out.val.imag.python_value = 2

\* The literal zero as second argument, given or defaulted
IsZeroArg(arg) ==
    arg.cls \in {"LiteralInteger", "LiteralFloat"} /\ arg.python_value = 0

IsCastOf(node, a) ==
    /\ node.cls = "PythonComplex"
    /\ node.is_cast
    /\ node.internal_var = a

\* C10 as first stated: for a Complex literal a, complex(a, 0) has
\* is_cast = true and internal_var = a.
C10_LiteralCast ==
    (IsComplex /\ call.arg0.cls = "LiteralComplex" /\ IsZeroArg(call.arg1)) =>
        IsCastOf(out.val, call.arg0)

\* C10: for a Complex-typed a that is not a literal, complex(a, 0) has
\* is_cast = true and internal_var = a; for a Complex literal a it folds to
\* a new Complex literal with the real and imaginary values of a.
C10_NonLiteralCast ==
    /\ (IsComplex /\ call.arg0.dtype = "NativeComplex" /\ ~IsLiteral(call.arg0)
          /\ IsZeroArg(call.arg1)) => IsCastOf(out.val, call.arg0)
    /\ (IsComplex /\ call.arg0.cls = "LiteralComplex" /\ IsZeroArg(call.arg1)) =>
          /\ out.val.cls = "LiteralComplex"
          /\ out.val # call.arg0
          /\ out.val.real.python_value = call.arg0.real.python_value
          /\ out.val.imag.python_value = call.arg0.imag.python_value

C10_Witness ==
    /\ IsComplex
    /\ call.arg0 = TypedVariable("NativeComplex", "arg0")
    /\ call.arg1 = DefaultArg1
    /\ IsCastOf(out.val, call.arg0)

IsRealCall == call.op = "PythonReal"
IsImagCall == call.op = "PythonImag"
IsBoolCall == call.op = "PythonBool"

IsAccessorOf(node, cls, x) ==
    /\ node.cls = cls
    /\ node.id = "new"
    /\ node.dtype = "NativeReal"
    /\ node.rank = 0
    /\ node.precision = x.precision
    /\ node.internal_var = x

\* C11: for a non-Complex x, PythonReal(x) is x itself and PythonImag(x) is
\* a new zero-valued literal of x's dtype; for a Complex x both are a new
\* accessor node of dtype Real, rank 0, x's precision and x as internal_var.
C11_RealImag ==
    /\ IsRealCall =>
         IF call.arg.dtype # "NativeComplex"
         THEN out.val = call.arg
         ELSE IsAccessorOf(out.val, "PythonReal", call.arg)
    /\ IsImagCall =>
         IF call.arg.dtype # "NativeComplex"
         THEN /\ out.val # call.arg
              /\ out.val.id = "new"
              /\ out.val.dtype = call.arg.dtype
              /\ out.val.python_value = 0
              /\ out.val.cls \in {"LiteralInteger", "LiteralFloat", "LiteralFalse"}
         ELSE IsAccessorOf(out.val, "PythonImag", call.arg)

C11_Witness ==
    /\ IsRealCall
    /\ call.arg = PrecVariable("NativeInteger", 4, "arg0")
    /\ out.val = call.arg

IsZeroOperand(arg) == IsLiteral(arg) /\ IsZeroArg(arg)

\* C12: when the arguments of PythonComplex are not both literals, the
\* first applicable rule fixes the result: (1) both Complex: arg0 + arg1*i;
\* (2) arg0 Complex, arg1 literal zero: a cast of arg0; (3) arg0 Complex:
\* real accessor, imag accessor + arg1; (4) arg1 Complex: (-imag accessor
\* or arg0 - imag accessor), real accessor; (5) otherwise arg0, arg1.
C12_RuleOrder ==
    (IsComplex /\ ~(IsLiteral(call.arg0) /\ IsLiteral(call.arg1))) =>
        LET a0 == call.arg0
            a1 == call.arg1
            r  == out.val
        IN  IF a0.dtype = "NativeComplex" /\ a1.dtype = "NativeComplex"
            THEN /\ r.cls = "PyccelAdd"
                 /\ r.args[1] = a0
                 /\ r.args[2].cls = "PyccelMul"
                 /\ r.args[2].args[1] = a1
                 /\ r.args[2].args[2].cls = "LiteralImaginaryUnit"
            ELSE IF a0.dtype = "NativeComplex" /\ IsZeroOperand(a1)
            THEN /\ r.cls = "PythonComplex" /\ r.is_cast
                 /\ IsAccessorOf(r.real, "PythonReal", a0)
                 /\ IsAccessorOf(r.imag, "PythonImag", a0)
                 /\ r.internal_var = a0
            ELSE IF a0.dtype = "NativeComplex"
            THEN /\ r.cls = "PythonComplex" /\ ~r.is_cast
                 /\ IsAccessorOf(r.real, "PythonReal", a0)
                 /\ r.imag.cls = "PyccelAdd"
                 /\ IsAccessorOf(r.imag.args[1], "PythonImag", a0)
                 /\ r.imag.args[2] = a1
                 /\ r.internal_var = None
            ELSE IF a1.dtype = "NativeComplex"
            THEN /\ r.cls = "PythonComplex" /\ ~r.is_cast
                 /\ IF IsZeroOperand(a0)
                    THEN /\ r.real.cls = "PyccelUnarySub"
                         /\ IsAccessorOf(r.real.args[1], "PythonImag", a1)
                    ELSE /\ r.real.cls = "PyccelMinus"
                         /\ r.real.args[1] = a0
                         /\ IsAccessorOf(r.real.args[2], "PythonImag", a1)
                 /\ IsAccessorOf(r.imag, "PythonReal", a1)
                 /\ r.internal_var = None
            ELSE /\ r.cls = "PythonComplex" /\ ~r.is_cast
                 /\ r.real = a0
                 /\ r.imag = a1
                 /\ r.internal_var = None

\* complex(x, z) with x a Real variable and z a Complex variable
C12_Witness ==
    /\ IsComplex
    /\ call.arg0 = TypedVariable("NativeReal", "arg0")
    /\ call.arg1 = TypedVariable("NativeComplex", "arg1")
    /\ out.val.cls = "PythonComplex"
    /\ out.val.real.cls = "PyccelMinus"
    /\ out.val.imag.cls = "PythonReal"

\* C13: PythonBool of an optional argument is the conjunction whose left
\* operand is 'arg is not Nil' and whose right operand is the boolean test
\* of arg, so evaluating it in operand order for an unset argument never
\* evaluates the boolean test; for any other argument it is the plain
\* PythonBool node.
C13_GuardFirst ==
    IsBoolCall =>
        IF IsOptional(call.arg)
        THEN /\ out.val.cls = "PyccelAnd"
             /\ out.val.args[1].cls = "PyccelIsNot"
             /\ out.val.args[1].args = <<call.arg, Nil>>
             /\ out.val.args[2].cls = "PythonBool"
             /\ out.val.args[2].arg = call.arg
             /\ \A k \in 1..Len(Evaluated(out.val, TRUE)) :
                    Evaluated(out.val, TRUE)[k].cls # "PythonBool"
             /\ Len(Evaluated(out.val, FALSE)) = 2
        ELSE /\ out.val.cls = "PythonBool"
             /\ out.val.arg = call.arg

C13_Witness ==
    /\ IsBoolCall
    /\ IsOptional(call.arg)
    /\ out.val.cls = "PyccelAnd"
    /\ out.val.args[1].cls = "PyccelIsNot"
    /\ Len(Evaluated(out.val, TRUE)) = 1

\* A constructor call at the semantic stage with at least one element
IsTupleCall == call.op = "PythonTuple" /\ out.status # "none"

IsTypedCall == IsTupleCall /\ call.stage = "semantic" /\ Len(call.args) >= 1

\* Homogeneity as the specification words it: every element shares dtype,
\* rank and order with element 0 and no element is Generic.
SharesTypeWithFirst(args) ==
    \A i \in 1..Len(args) :
        /\ args[i].dtype = args[1].dtype
        /\ args[i].rank  = args[1].rank
        /\ args[i].order = args[1].order

NoGeneric(args) == \A i \in 1..Len(args) : args[i].dtype # "NativeGeneric"

\* C14: an aggregate of N >= 1 elements is homogeneous iff every element
\* shares dtype, rank and order with element 0 and no element is Generic;
\* a one-element aggregate of a Generic element is constructed and
\* heterogeneous, with dtype Generic.
C14_Homogeneity ==
    /\ (IsTypedCall /\ out.status = "ok") =>
          (out.val.is_homogeneous <=>
              (SharesTypeWithFirst(call.args) /\ NoGeneric(call.args)))
    /\ (IsTypedCall /\ Len(call.args) = 1 /\ call.args[1].dtype = "NativeGeneric") =>
          /\ out.status = "ok"
          /\ ~out.val.is_homogeneous
          /\ out.val.typing.dtype = "NativeGeneric"

NumericKinds == {"NativeInteger", "NativeReal", "NativeComplex", "NativeBool"}

\* C15: a homogeneous aggregate without String has the elements' numeric
\* kind, the maximum precision of the elements, rank = element rank + 1
\* and, when every element shape is known, shape (N,) + shape of element 0;
\* a heterogeneous one has dtype Generic, precision 0, rank = max rank + 1
\* and shape (N,) + shape of element 0.
C15_AggregateTyping ==
    (IsTypedCall /\ out.status = "ok") =>
        LET args == call.args
            t    == out.val.typing
            n    == Len(args)
        IN  IF SharesTypeWithFirst(args) /\ NoGeneric(args)
            THEN args[1].dtype # "NativeString" =>
                   /\ t.dtype = args[1].dtype
                   /\ t.dtype \in NumericKinds
                   /\ \A i \in 1..n : t.precision >= args[i].precision
                   /\ \E i \in 1..n : t.precision = args[i].precision
                   /\ t.rank = args[1].rank + 1
                   /\ (\A i \in 1..n : args[i].shape.known) =>
                         t.shape = Shape(<<Dim(n)>> \o args[1].shape.dims)
            ELSE /\ t.dtype = "NativeGeneric"
                 /\ t.precision = 0
                 /\ \A i \in 1..n : t.rank >= args[i].rank + 1
                 /\ \E i \in 1..n : t.rank = args[i].rank + 1
                 /\ t.shape = Shape(<<Dim(n)>> \o args[1].shape.dims)

IntScalar == Elem("NativeInteger", 8, 0, Shape(<<>>), "C")

\* tuple(1, 2, 3) is homogeneous Integer of rank 1 and shape (3,)
C15_Witness ==
    /\ IsTypedCall
    /\ call.args = <<IntScalar, IntScalar, IntScalar>>
    /\ out.status = "ok"
    /\ out.val.is_homogeneous
    /\ out.val.typing.dtype = "NativeInteger"
    /\ out.val.typing.rank = 1
    /\ out.val.typing.shape = Shape(<<Dim(3)>>)

HasString(args) == \E i \in 1..Len(args) : args[i].dtype = "NativeString"

IsScalarString(t) ==
    /\ t.dtype = "NativeString"
    /\ t.rank = 0
    /\ t.shape = Shape(<<>>)

\* C16 as first stated: an aggregate with any String element is typed
\* scalar String whatever the dtypes of the other elements.
C16_AnyStringScalar ==
    (IsTypedCall /\ HasString(call.args)) =>
        /\ out.status = "ok"
        /\ IsScalarString(out.val.typing)

\* C16: a homogeneous aggregate of String elements is typed scalar String
\* (rank 0, empty shape); an aggregate mixing a String element with an
\* element of another dtype is never typed String: when it is constructed
\* it is heterogeneous and typed Generic with rank >= 1.
C16_StringAggregate ==
    (IsTypedCall /\ HasString(call.args)) =>
        IF SharesTypeWithFirst(call.args)
        THEN /\ out.status = "ok"
             /\ out.val.is_homogeneous
             /\ IsScalarString(out.val.typing)
        ELSE out.status = "ok" =>
               /\ ~out.val.is_homogeneous
               /\ out.val.typing.dtype = "NativeGeneric"
               /\ out.val.typing.rank >= 1

StrScalar == Elem("NativeString", 0, 0, Shape(<<>>), "C")

C16_Witness ==
    /\ IsTypedCall
    /\ call.args = <<StrScalar, StrScalar>>
    /\ out.status = "ok"
    /\ IsScalarString(out.val.typing)

(***************************************************************************)
(* PythonRange, PythonZip, PythonMap                                       *)
(***************************************************************************)
IsRangeCall == call.op = "PythonRange" /\ out.status # "none"

IsIntegerLiteral(node, v) ==
    /\ node.cls = "LiteralInteger"
    /\ node.dtype = "NativeInteger"
    /\ node.python_value = v

IsRange == out.status = "ok" /\ out.val.cls = "PythonRange"

\* C17: PythonRange with 1 argument n has start = literal 0, stop = n,
\* step = literal 1; with 2 arguments a, b it has start = a, stop = b,
\* step = literal 1; with 3 arguments the fields are the arguments in order;
\* with 0 arguments or 4 or more it raises and no Range node exists.
C17_RangeFields ==
    IsRangeCall =>
        LET n == Len(call.args) IN
        CASE n = 1 -> /\ IsRange
                      /\ IsIntegerLiteral(out.val.start, 0)
                      /\ out.val.stop = call.args[1]
                      /\ IsIntegerLiteral(out.val.step, 1)
          [] n = 2 -> /\ IsRange
                      /\ out.val.start = call.args[1]
                      /\ out.val.stop = call.args[2]
                      /\ IsIntegerLiteral(out.val.step, 1)
          [] n = 3 -> /\ IsRange
                      /\ out.val.start = call.args[1]
                      /\ out.val.stop = call.args[2]
                      /\ out.val.step = call.args[3]
          [] OTHER -> out.status = "raise"

\* Range(a, b) with two different nodes has been constructed
C17_Witness ==
    /\ IsRangeCall
    /\ Len(call.args) = 2
    /\ call.args[1] # call.args[2]
    /\ out.status = "ok"
    /\ out.val.start = call.args[1]

IsZipMapCall == call.op \in {"PythonZip", "PythonMap"} /\ out.status # "none"

\* C18: PythonZip and PythonMap construction succeeds iff at least 2
\* arguments are given; with 0 or 1 argument each raises and no node exists;
\* with 2 or more the node keeps all arguments in the given order, and
\* Zip.element is argument 0.
C18_ZipMapArity ==
    IsZipMapCall =>
        IF Len(call.args) >= 2
        THEN /\ out.status = "ok"
             /\ out.val.cls = call.op
             /\ out.val.args = call.args
             /\ call.op = "PythonZip" => element(out.val) = call.args[1]
        ELSE /\ out.status = "raise"
             /\ out.exc = IF call.op = "PythonZip" THEN "ValueError" ELSE "TypeError"

\* Zip(a) with a single argument has been rejected
C18_Witness ==
    /\ call.op = "PythonZip"
    /\ Len(call.args) = 1
    /\ out.status = "raise"

(***************************************************************************)
(* PythonInt and PythonFloat                                               *)
(***************************************************************************)
IsCastCall == call.op \in {"PythonInt", "PythonFloat"} /\ out.status = "ok"

\* C19: PythonInt of an Integer or Float literal returns an Integer literal
\* at the default integer precision, PythonFloat of an Integer or Float
\* literal returns a Float literal at the default real precision; of any
\* non-literal argument each returns a new node of dtype Integer resp. Real,
\* rank 0, holding the argument.
C19_CastFolding ==
    IsCastCall =>
        LET isInt == call.op = "PythonInt" IN
        IF call.arg.cls \in {"LiteralInteger", "LiteralFloat"}
        THEN /\ out.val.cls = IF isInt THEN "LiteralInteger" ELSE "LiteralFloat"
             /\ out.val.precision =
                   IF isInt THEN default_precision["integer"] ELSE default_precision["real"]
             /\ out.val.python_value = call.arg.python_value
        ELSE /\ out.val.cls = call.op
             /\ out.val.dtype = IF isInt THEN "NativeInteger" ELSE "NativeReal"
             /\ out.val.rank = 0
             /\ out.val.arg = call.arg

(***************************************************************************)
(* PythonSum, PythonMax, PythonMin                                         *)
(***************************************************************************)
IsReductionCall ==
    call.op \in {"PythonSum", "PythonMax", "PythonMin"} /\ out.status # "none"

\* C20: the node built by PythonSum, PythonMax or PythonMin from a typed
\* argument has rank 0, empty shape, the dtype of the argument and the
\* precision of the argument, whatever that precision is.
C20_ReductionTyping ==
    (IsReductionCall /\ out.status = "ok") =>
        /\ out.val.rank = 0
        /\ out.val.shape = <<>>
        /\ out.val.dtype = call.arg.dtype
        /\ out.val.precision = call.arg.precision

\* C21: PythonSum, PythonMax and PythonMin accept the same operand kinds:
\* every typed AST value (aggregate or variable) is accepted by all three,
\* every untyped operand is rejected by all three with an error raised
\* before the node is built.
C21_UniformValidation ==
    IsReductionCall =>
        IF IsPyccelAstNode(call.arg)
        THEN out.status = "ok"
        ELSE out.status = "raise"

(***************************************************************************)
(* Shared state of the wrapper generators                                  *)
(***************************************************************************)
\* C22: constructing PyArg_ParseTupleNode or PyBuildValueNode, calling
\* PythonType_Check or a cast-function builder writes no state shared
\* between invocations: the diagnostics collector is the same afterwards.
C22_NoSharedWrites == [][errors' = errors]_vars

(***************************************************************************)
(* Rank and shape of aggregates                                            *)
(***************************************************************************)
HasKnownShape(t) == "shape" \in DOMAIN t /\ t.shape.known

\* C27: every non-empty PythonTuple or PythonList that construction accepts
\* and that has a known shape has rank = length of shape, homogeneous or
\* not; and constructing a heterogeneous aggregate whose element 0 has an
\* unknown shape does not fail.
C27_RankIsShapeLength ==
    IsTypedCall =>
        /\ (out.status = "ok" /\ HasKnownShape(out.val.typing)) =>
               out.val.typing.rank = Len(out.val.typing.shape.dims)
        /\ (~SharesTypeWithFirst(call.args) /\ ~call.args[1].shape.known) =>
               out.status = "ok"

(***************************************************************************)
(* CompileObj locking                                                      *)
(***************************************************************************)
\* The process is between a completed acquire_lock() and its release_lock()
HasLock(p) == pc[p].at = "held"

Holds(p, t) == held[t].proc = p

\* The targets the locked object and its direct dependencies have now
CurrentTargets(p) ==
    {FileLock(p, d).path : d \in {pc[p].obj} \cup dependencies[p][pc[p].obj]}

\* C23: between a process's completed acquire_lock() on a CompileObj and its
\* release_lock(), the process holds the file lock of the object's target
\* and of the target of every direct dependency, and no other process is
\* between an acquire and its release on any of those targets.
C23_LocksCurrentTargets ==
    \A p \in Procs :
        HasLock(p) =>
            /\ \A t \in CurrentTargets(p) : Holds(p, t)
            /\ \A q \in Procs \ {p} :
                   HasLock(q) => CurrentTargets(p) \cap CurrentTargets(q) = {}

\* The process is inside acquire_lock(), waiting for a lock file that
\* another lock object holds
Waiting(p) ==
    \/ pc[p].at = "own"  /\ ~CanAcquire(held, FileLock(p, pc[p].obj))
    \/ pc[p].at = "deps" /\ ~CanAcquire(held, FileLock(p, Head(pc[p].todo)))

\* C24: for any objects and dependency sets, when several processes each
\* call acquire_lock() and later release_lock(), no reachable state has
\* every process blocked waiting for a lock held by another (so every
\* acquire_lock() can still return).
C24_NoDeadlock == ~(\A p \in Procs : Waiting(p))

\* C25: after acquire_lock() followed by release_lock() on the same object,
\* with any calls of add_dependencies() or reset_folder() in between, the
\* process holds none of the file locks it acquired, and release_lock() is
\* what releases them: until then the process holds every lock that
\* acquire_lock() took.
C25_LockBalance ==
    \A p \in Procs :
        /\ pc[p].at = "idle" => \A t \in Targets : ~Holds(p, t)
        /\ HasLock(p) => \A t \in pc[p].locks : Holds(p, t)

(***************************************************************************)
(* CompileObj.extra_modules                                                *)
(***************************************************************************)
IsModulesCall == call.op = "extra_modules"

\* The objects reachable from the objects of S through zero or more edges
RECURSIVE Closure(_, _)
Closure(g, S) ==
    LET T == S \cup UNION {g[x] : x \in S}
    IN  IF T = S THEN S ELSE Closure(g, T)

\* The objects reachable from o through one or more dependency edges
ReachableFrom(g, o) == Closure(g, g[o])

\* C26: for every dependency graph that can be built with the constructor
\* and add_dependencies, reading extra_modules terminates and returns
\* exactly the targets of the objects reachable from the object through one
\* or more dependency edges.
C26_ExtraModules ==
    IsModulesCall =>
        /\ out.status = "ok"
        /\ out.val = {target(call.folder[d], d) :
                         d \in ReachableFrom(call.dependencies, call.obj)}

====
